---------------------------- MODULE Spec2Model ----------------------------
(***************************************************************************)
(* The email intake/dispatch pipeline of src/worker.js (the handler that   *)
(* `export default { fetch, email }` at worker.js:124-141 installs):       *)
(* recipient check, forward list, MIME parse, forward loop, webhook POST,  *)
(* optional auto-reply.                                                    *)
(*                                                                         *)
(* A JavaScript string is a sequence of one-character strings, so that     *)
(* trim, toLowerCase and split are computed character by character.        *)
(* An optional configuration value is a tagged record: [t |-> "undefined"],*)
(* [t |-> "boolean", v |-> TRUE] or [t |-> "string", v |-> <<...>>].       *)
(***************************************************************************)
EXTENDS Naturals, Sequences, FiniteSets

VARIABLES
    env,            \* the configuration snapshot of the invocation
    message,        \* the inbound message: envelope `to`, `from`, subject header
    pc,             \* where the handler is (which await it is suspended on)
    forwardEmails,  \* main's const forwardEmails (worker.js:208)
    idx,            \* position of forward's for-of loop in addrList, 1-based
    calls,          \* every call into the host and its completion, in order
    reject,         \* the reject reason the message carries ("" when none)
    result,         \* what email() gave the host: pending, undefined, throws
    error,          \* which failure escaped the handler ("none" when none)
    parsed,         \* main's parsedContent, what PostalMime.parse resolved to
    normalized,     \* process's const body, the pair convertContent returned
    payload,        \* sendToSlack's slackPayload, the body of the POST
    replyMessage    \* reply's composed message, handed to message.reply

vars == <<env, message, pc, forwardEmails, idx, calls, reject, result, error,
          parsed, normalized, payload, replyMessage>>

---------------------------------------------------------------------------
(* Bounds of the checked inputs *)

\* how many comma-separated raw entries a generated FORWARD_EMAIL has at most
MaxEntries == 2

\* how many characters a FORWARD_EMAIL of the filter specification has at most
MaxListLen == 5

\* how many characters a generated plain-text body has at most
MaxTextLen == 2

\* how many pieces (a tag, a letter, a blank) a generated HTML body has at most
MaxHtmlParts == 3

\* how many attachments a generated message has at most
MaxAttachments == 2

\* how many base64 characters a generated attachment content has at most
MaxContentLen == 100

---------------------------------------------------------------------------
(* JavaScript strings *)

Upper == <<"A", "B", "C", "D", "E", "F", "G", "H", "I", "J", "K", "L", "M",
           "N", "O", "P", "Q", "R", "S", "T", "U", "V", "W", "X", "Y", "Z">>

Lower == <<"a", "b", "c", "d", "e", "f", "g", "h", "i", "j", "k", "l", "m",
           "n", "o", "p", "q", "r", "s", "t", "u", "v", "w", "x", "y", "z">>

\* the characters String.prototype.trim removes (those of the inputs' alphabet)
WhiteSpace == {" ", "\t", "\n", "\r"}

\* String.prototype.toLowerCase on one character
lowerChar(c) ==
    IF \E k \in 1..Len(Upper) : Upper[k] = c
    THEN Lower[CHOOSE k \in 1..Len(Upper) : Upper[k] = c]
    ELSE c

\* String.prototype.toLowerCase
toLowerCase(s) == [k \in 1..Len(s) |-> lowerChar(s[k])]

RECURSIVE trimStart(_)
trimStart(s) ==
    IF s # <<>> /\ Head(s) \in WhiteSpace THEN trimStart(Tail(s)) ELSE s

RECURSIVE trimEnd(_)
trimEnd(s) ==
    IF s # <<>> /\ s[Len(s)] \in WhiteSpace
    THEN trimEnd(SubSeq(s, 1, Len(s) - 1))
    ELSE s

\* String.prototype.trim
trim(s) == trimEnd(trimStart(s))

\* String.prototype.split(','): "" splits to [""], "a," to ["a", ""]
RECURSIVE split(_)
split(s) ==
    LET commas == {k \in 1..Len(s) : s[k] = ","}
    IN  IF commas = {}
        THEN <<s>>
        ELSE LET c == CHOOSE k \in commas : \A m \in commas : k <= m
             IN  <<SubSeq(s, 1, c - 1)>> \o split(SubSeq(s, c + 1, Len(s)))

\* Array.prototype.join(',')
RECURSIVE join(_)
join(list) ==
    IF list = <<>> THEN <<>>
    ELSE IF Len(list) = 1 THEN list[1]
    ELSE list[1] \o <<",">> \o join(Tail(list))

---------------------------------------------------------------------------
(* Configuration values *)

Undefined == [t |-> "undefined"]
Bool(b) == [t |-> "boolean", v |-> b]
Str(s) == [t |-> "string", v |-> s]

\* `x === true`
isTrue(x) == x.t = "boolean" /\ x.v = TRUE

\* `x || ''` for a value that is a string or unset
orEmpty(x) == IF x.t = "string" THEN x.v ELSE <<>>

---------------------------------------------------------------------------
(* filterEmails, worker.js:143-159 *)

\* the last match instead of the first (findLastIndex)
findLastIndex(self, addr) ==
    LET hits == {k \in 1..Len(self) : toLowerCase(self[k]) = toLowerCase(addr)}
    IN  IF hits = {} THEN 0
        ELSE CHOOSE k \in hits : \A m \in hits : k >= m

\* self.findIndex((a) => a.toLowerCase() === addr.toLowerCase()), 1-based
findIndex(self, addr) ==
    LET hits == {k \in 1..Len(self) : toLowerCase(self[k]) = toLowerCase(addr)}
    IN  IF hits = {} THEN 0
        ELSE CHOOSE k \in hits : \A m \in hits : k <= m

\* .filter((addr, index, self) => self.findIndex(...) === index)
RECURSIVE removeDuplicates(_, _)
removeDuplicates(self, index) ==
    IF index > Len(self) THEN <<>>
    ELSE (IF findIndex(self, self[index]) = index THEN <<self[index]>> ELSE <<>>)
         \o removeDuplicates(self, index + 1)

\* excludeList.some((excl) => excl.toLowerCase() === addr.toLowerCase())
excluded(excludeList, addr) ==
    \E k \in 1..Len(excludeList) :
        toLowerCase(excludeList[k]) = toLowerCase(addr)

\* the exclusion filter with the sender never excluded
excludeListWorkerOnly(msg, e, workerEmail) == <<workerEmail>>

\* [workerEmail].concat(env.FORWARD_EXCLUDE_SENDER === true ? [message.from] : [])
excludeList(msg, e, workerEmail) ==
    <<workerEmail>> \o
    (IF isTrue(e.FORWARD_EXCLUDE_SENDER) THEN <<msg.from>> ELSE <<>>)

\* the entries trimmed only after the empty ones were dropped
filterEmailsTrimLate(msg, e, workerEmail) ==
    LET addressList == split(orEmpty(e.FORWARD_EMAIL))
        nonEmpty == SelectSeq(addressList, LAMBDA addr : Len(addr) > 0)
        trimmed == [k \in 1..Len(nonEmpty) |-> trim(nonEmpty[k])]
        unique == removeDuplicates(trimmed, 1)
        excl == excludeList(msg, e, workerEmail)
    IN  SelectSeq(unique, LAMBDA addr : ~excluded(excl, addr))

filterEmails(msg, e, workerEmail) ==
    LET addressList == split(orEmpty(e.FORWARD_EMAIL))
        trimmed == [k \in 1..Len(addressList) |-> trim(addressList[k])]
        nonEmpty == SelectSeq(trimmed, LAMBDA addr : Len(addr) > 0)
        unique == removeDuplicates(nonEmpty, 1)
        excl == excludeList(msg, e, workerEmail)
    IN  SelectSeq(unique, LAMBDA addr : ~excluded(excl, addr))

---------------------------------------------------------------------------
(* JavaScript values in templates and conditions *)

Null == [t |-> "null"]

\* whether a value passes `x ? ... : ...`, `!x`, `x || ...`
truthy(x) ==
    \/ x.t = "string" /\ x.v # <<>>
    \/ x.t = "boolean" /\ x.v = TRUE

---------------------------------------------------------------------------
(* The literal strings of the notification, worker.js:163-164, 235, 338-431 *)

\* the grave accent character, which a string of this notation cannot hold
Backtick == "[grave accent]"

\* `${null}`
NullText == <<"n", "u", "l", "l">>

\* `${undefined}`
UndefinedText == <<"u", "n", "d", "e", "f", "i", "n", "e", "d">>

UnnamedAttachment == <<"u", "n", "n", "a", "m", "e", "d", "_", "a", "t",
                       "t", "a", "c", "h", "m", "e", "n", "t">>

OctetStream == <<"a", "p", "p", "l", "i", "c", "a", "t", "i", "o", "n",
                 "/", "o", "c", "t", "e", "t", "-", "s", "t", "r", "e",
                 "a", "m">>

TitleText == <<"N", "e", "w", " ", "E", "m", "a", "i", "l", " ", "R", "e",
               "c", "e", "i", "v", "e", "d", "!">>

FromLabel == <<"F", "r", "o", "m", ":">>

SubjectLabel == <<"S", "u", "b", "j", "e", "c", "t", ":">>

SpaceText == <<" ">>

CountPrefix == <<"*", "_", "A", "t", "t", "a", "c", "h", "m", "e", "n",
                 "t", "s", ":", "_", "*", " ">>

CountSuffix == <<" ", "f", "i", "l", "e", "(", "s", ")", " ", "r", "e",
                 "c", "e", "i", "v", "e", "d", ".">>

\* the opening of the preformatted block
BodyPrefix == <<"*", "_", "B", "o", "d", "y", ":", "_", "*", "\n", Backtick,
                Backtick, Backtick>>

\* the closing of the preformatted block
BodySuffix == <<Backtick, Backtick, Backtick>>

NameMark == <<"*">>

MimePrefix == <<"*", "_", "M", "i", "m", "e", " ", "T", "y", "p", "e", ":",
                "_", "*", " ", Backtick>>

SizePrefix == <<Backtick, " ", "\n", "*", "_", "S", "i", "z", "e", ":", "_",
                "*", " ">>

SizeSuffix == <<" ", "b", "y", "t", "e", "s">>

Digits == <<"0", "1", "2", "3", "4", "5", "6", "7", "8", "9">>

\* `${n}` for a non-negative integer
RECURSIVE decimal(_)
decimal(n) ==
    IF n < 10 THEN <<Digits[n + 1]>>
    ELSE decimal(n \div 10) \o <<Digits[(n % 10) + 1]>>

\* `${x}`
template(x) ==
    IF x.t = "string" THEN x.v
    ELSE IF x.t = "null" THEN NullText
    ELSE UndefinedText

---------------------------------------------------------------------------
(* convertContent and filterAttachments, worker.js:161-180 *)

\* convert of html-to-text, as far as the pipeline depends on it: the tags
\* are dropped and the text between them is kept
RECURSIVE convert(_)
convert(html) ==
    IF html = <<>> THEN <<>>
    ELSE LET closes == {k \in 1..Len(html) : html[k] = ">"}
         IN  IF Head(html) = "<" /\ closes # {}
             THEN convert(SubSeq(html,
                                 1 + CHOOSE k \in closes : \A m \in closes : k <= m,
                                 Len(html)))
             ELSE <<Head(html)>> \o convert(Tail(html))

\* the HTML body preferred over the plain text
convertContentHtmlFirst(text, html) ==
    LET body == IF truthy(html) THEN Str(convert(html.v)) ELSE text
    IN  [text |-> IF truthy(body) THEN Str(trim(body.v)) ELSE Null,
         html |-> IF truthy(html) THEN Str(trim(html.v)) ELSE Null]

\* an empty body handed on as the empty string
convertContentEmptyString(text, html) ==
    LET body == IF ~truthy(text) /\ truthy(html) THEN Str(convert(html.v))
                ELSE text
    IN  [text |-> IF truthy(body) THEN Str(trim(body.v)) ELSE Str(<<>>),
         html |-> IF truthy(html) THEN Str(trim(html.v)) ELSE Null]

convertContent(text, html) ==
    LET body == IF ~truthy(text) /\ truthy(html) THEN Str(convert(html.v))
                ELSE text
    IN  [text |-> IF truthy(body) THEN Str(trim(body.v)) ELSE Null,
         html |-> IF truthy(html) THEN Str(trim(html.v)) ELSE Null]

filterAttachments(attachments) ==
    [k \in 1..Len(attachments) |->
        [filename |-> IF truthy(attachments[k].filename)
                      THEN attachments[k].filename
                      ELSE Str(UnnamedAttachment),
         mimeType |-> IF truthy(attachments[k].mimeType)
                      THEN attachments[k].mimeType
                      ELSE Str(OctetStream),
         content |-> attachments[k].content]]

---------------------------------------------------------------------------
(* attachmentInfo and sendToSlack, worker.js:226-241 and 324-439 *)

\* the attachment-count summary: one context block, or none
attachmentInfo(attachments) ==
    IF Len(attachments) > 0
    THEN << [type |-> "context",
             elements |-> << [type |-> "mrkdwn",
                              text |-> Str(CountPrefix
                                           \o decimal(Len(attachments))
                                           \o CountSuffix)] >>] >>
    ELSE <<>>

headerBlock ==
    [type |-> "header",
     text |-> [type |-> "plain_text", text |-> Str(TitleText)]]

\* one rich_text_section: the bold italic label, a space, the value
labelled(label, value) ==
    [type |-> "rich_text_section",
     elements |-> << [type |-> "text", text |-> Str(label),
                      style |-> [bold |-> TRUE, italic |-> TRUE]],
                     [type |-> "text", text |-> Str(SpaceText)],
                     [type |-> "text", text |-> value] >>]

\* the From/Subject block
richText(from, subject) ==
    [type |-> "rich_text",
     elements |-> << labelled(FromLabel, Str(from)),
                     labelled(SubjectLabel, subject) >>]

divider == [type |-> "divider"]

\* the body text taken from the plain body whatever SHOW_RAW_BODY says
bodyTextPlainOnly(e, body) == body.text

\* showRawBody ? `*_Body:_*\n```${body.html}```` : body.text
bodyText(e, body) ==
    IF isTrue(e.SHOW_RAW_BODY)
    THEN Str(BodyPrefix \o template(body.html) \o BodySuffix)
    ELSE body.text

bodySection(e, body) ==
    [type |-> "section",
     text |-> [type |-> "mrkdwn", text |-> bodyText(e, body)]]

\* the size rounded down
flooredSize(content) == (3 * Len(content)) \div 4

\* Math.round(att.content.length * 0.75): the nearest integer, halves up
roundedSize(content) == (3 * Len(content) + 2) \div 4

\* one entry of the legacy attachments field
attachmentDetail(e, att) ==
    [color |-> IF truthy(e.ATTACHMENT_BLOCK_COLOR_HEX)
               THEN e.ATTACHMENT_BLOCK_COLOR_HEX
               ELSE Undefined,
     blocks |-> << [type |-> "section",
                    text |-> [type |-> "mrkdwn",
                              text |-> Str(NameMark
                                           \o template(att.filename)
                                           \o NameMark)]],
                   [type |-> "context",
                    elements |-> << [type |-> "mrkdwn",
                                     text |-> Str(MimePrefix
                                                  \o template(att.mimeType)
                                                  \o SizePrefix
                                                  \o decimal(roundedSize(att.content))
                                                  \o SizeSuffix)] >>] >>]

\* the summary always right after the From/Subject block
blocksSummaryFirst(e, from, subject, body, attachments) ==
    << headerBlock, richText(from, subject) >>
    \o attachmentInfo(attachments)
    \o << divider, bodySection(e, body), divider >>

\* the blocks of the payload
blocks(e, from, subject, body, attachments) ==
    << headerBlock, richText(from, subject) >>
    \o (IF isTrue(e.SHOW_ATTACHMENTS) THEN <<>> ELSE attachmentInfo(attachments))
    \o << divider, bodySection(e, body), divider >>
    \o (IF isTrue(e.SHOW_ATTACHMENTS) THEN attachmentInfo(attachments) ELSE <<>>)

\* the detailed entries whenever there is an attachment
legacyAttachmentsAlways(e, attachments) ==
    IF Len(attachments) > 0
    THEN [t |-> "array",
          v |-> [k \in 1..Len(attachments) |->
                    attachmentDetail(e, attachments[k])]]
    ELSE Undefined

\* the legacy attachments field: present with SHOW_ATTACHMENTS and at least
\* one attachment, absent otherwise
legacyAttachments(e, attachments) ==
    IF Len(attachments) > 0 /\ isTrue(e.SHOW_ATTACHMENTS)
    THEN [t |-> "array",
          v |-> [k \in 1..Len(attachments) |->
                    attachmentDetail(e, attachments[k])]]
    ELSE Undefined

\* the slackPayload that sendToSlack serializes and POSTs
slackPayload(e, from, subject, body, attachments) ==
    [blocks |-> blocks(e, from, subject, body, attachments),
     attachments |-> legacyAttachments(e, attachments)]

---------------------------------------------------------------------------
(* reply, as far as the message it composes, worker.js:252-264 *)

\* 'Thank you for your message'
SenderName ==
    <<"T", "h", "a", "n", "k", " ", "y", "o", "u", " ", "f", "o",
      "r", " ", "y", "o", "u", "r", " ", "m", "e", "s", "s", "a",
      "g", "e">>

\* 'Automated Reply: '
ReplyPrefix ==
    <<"A", "u", "t", "o", "m", "a", "t", "e", "d", " ", "R", "e",
      "p", "l", "y", ":", " ">>

\* '(No Subject)'
NoSubject ==
    <<"(", "N", "o", " ", "S", "u", "b", "j", "e", "c", "t", ")">>

\* the text of the reply before and after the quoted subject
DataPrefix ==
    <<"T", "h", "i", "s", " ", "i", "s", " ", "a", "n", " ", "a",
      "u", "t", "o", "m", "a", "t", "e", "d", " ", "r", "e", "p",
      "l", "y", ".", " ", "Y", "o", "u", "r", " ", "e", "m", "a",
      "i", "l", " ", "w", "i", "t", "h", " ", "t", "h", "e", " ",
      "s", "u", "b", "j", "e", "c", "t", " ", "\"">>

DataSuffix ==
    <<"\"", " ", "w", "a", "s", " ", "r", "e", "c", "e", "i",
      "v", "e", "d", ",", " ", "a", "n", "d", " ", "w", "i", "l",
      "l", " ", "b", "e", " ", "h", "a", "n", "d", "l", "e", "d",
      " ", "a", "s", " ", "s", "o", "o", "n", " ", "a", "s", " ",
      "p", "o", "s", "s", "i", "b", "l", "e", ".", "\n", "\n">>

\* the subject taken as it is, without a substitute
replySubjectRaw(p) == template(p.subject)

\* const subject = parsedContent.subject || '(No Subject)'
replySubject(p) == IF truthy(p.subject) THEN p.subject.v ELSE NoSubject

\* the MIME message (sender, recipient, In-Reply-To, subject, one
\* text/plain part) and the envelope of new EmailMessage(from, to, raw)
composeReply(msg, p) ==
    [sender |-> [name |-> SenderName, addr |-> msg.to],
     recipient |-> msg.from,
     inReplyTo |-> msg.messageId,
     subject |-> ReplyPrefix \o replySubject(p),
     contentType |-> "text/plain",
     data |-> DataPrefix \o replySubject(p) \o DataSuffix,
     from |-> msg.to,
     to |-> msg.from]

---------------------------------------------------------------------------
(* The inputs of an invocation *)

ExampleWorker == <<"i", "n", "b", "o", "x", "@", "w", "o", "r", "k", "e", "r",
                   ".", "e", "x", "a", "m", "p", "l", "e">>

\* "a@x.com, A@x.com ,inbox@worker.example"
ExampleList == <<"a", "@", "x", ".", "c", "o", "m", ",", " ", "A", "@", "x",
                 ".", "c", "o", "m", " ", ",", "i", "n", "b", "o", "x", "@",
                 "w", "o", "r", "k", "e", "r", ".", "e", "x", "a", "m", "p",
                 "l", "e">>

ExampleTarget == <<"a", "@", "x", ".", "c", "o", "m">>

\* "A@x.com,a@x.com" and its first entry
DuplicateList == <<"A", "@", "x", ".", "c", "o", "m", ",",
                   "a", "@", "x", ".", "c", "o", "m">>

DuplicateKept == <<"A", "@", "x", ".", "c", "o", "m">>

\* envelope recipients
Recipients ==
    { <<"w", "@", "y">>, <<" ", "W", "@", "Y", "\t">>, <<"a", "@", "x">>,
      ExampleWorker }

\* configured worker addresses
WorkerAddresses == { <<"w", "@", "y">>, <<"W", "@", "y", " ">>, ExampleWorker }

\* envelope senders
Senders == { <<"s", "@", "z">>, <<"A", "@", "X">> }

\* what one comma-separated piece of a generated FORWARD_EMAIL may be
RawEntries ==
    { <<"a", "@", "x">>, <<" ", "A", "@", "x">>, <<"W", "@", "y">>,
      <<"s", "@", "z", " ">>, <<" ">> }

\* the FORWARD_EMAIL strings of up to MaxEntries pieces
GeneratedLists ==
    {join(l) : l \in UNION {[1..n -> RawEntries] : n \in 0..MaxEntries}}

ForwardConfigs ==
    {Undefined, Str(ExampleList)} \cup {Str(s) : s \in GeneratedLists}

\* a toggle set to boolean true, to boolean false, or to the string "true"
Toggles == {Bool(TRUE), Bool(FALSE), Str(<<"t", "r", "u", "e">>)}

\* the characters of the filter specification's FORWARD_EMAIL
ListAlphabet == {"a", "A", "b", "w", " ", ","}

CharLists == UNION {[1..n -> ListAlphabet] : n \in 0..MaxListLen}

\* "Hello", and what message.headers.get('subject') may give
HelloText == <<"H", "e", "l", "l", "o">>

Subjects == {Null, Str(HelloText)}

\* "<m1@z>", a Message-ID header
ExampleId == <<"<", "m", "1", "@", "z", ">">>

\* the subject PostalMime.parse reports for a message with this header
parsedSubject(msg) == IF msg.subject = Null THEN Undefined ELSE msg.subject

\* "Hi there"
HiThereText == <<"H", "i", " ", "t", "h", "e", "r", "e">>

\* "<p>Hi</p>"
HiHtml == <<"<", "p", ">", "H", "i", "<", "/", "p", ">">>

\* "a.txt", "text/plain" and a base64 content of four characters
NamedAttachment ==
    [filename |-> Str(<<"a", ".", "t", "x", "t">>),
     mimeType |-> Str(<<"t", "e", "x", "t", "/", "p", "l", "a", "i", "n">>),
     content |-> <<"Q", "U", "J", "D">>]

\* an attachment the parser found neither a name nor a type for
BareAttachment ==
    [filename |-> Null, mimeType |-> Str(<<>>), content |-> <<"Q", "Q">>]

\* what PostalMime.parse resolves to in the handler specification
ParsedEmails ==
    { [text |-> Str(HiThereText), html |-> Undefined, attachments |-> <<>>],
      [text |-> Undefined, html |-> Str(HiHtml),
       attachments |-> <<NamedAttachment>>] }

\* a parsed message without any content
EmptyParsed ==
    [text |-> Undefined, html |-> Undefined, attachments |-> <<>>,
     subject |-> Undefined]

---------------------------------------------------------------------------
(* Calls into the host and their completions *)

Call(op, addr) == [op |-> op, addr |-> addr, info |-> ""]
Settle(op, addr, info) == [op |-> op, addr |-> addr, info |-> info]

\* message.setReject(reason)
setReject(reason) == [op |-> "setReject", addr |-> <<>>, info |-> reason]

Init ==
    /\ env \in [WORKER_EMAIL : WorkerAddresses,
                FORWARD_EMAIL : ForwardConfigs,
                FORWARD_EXCLUDE_SENDER : Toggles,
                REPLY_TO_SENDER : Toggles,
                SHOW_ATTACHMENTS : {Undefined},
                SHOW_RAW_BODY : {Undefined},
                ATTACHMENT_BLOCK_COLOR_HEX : {Undefined}]
    /\ message \in [to : Recipients, from : Senders, subject : Subjects,
                    messageId : {Str(ExampleId)}]
    /\ pc = "main"
    /\ forwardEmails = <<>>
    /\ idx = 1
    /\ calls = <<>>
    /\ reject = ""
    /\ result = "pending"
    /\ error = "none"
    /\ parsed = Undefined
    /\ normalized = Undefined
    /\ payload = Undefined
    /\ replyMessage = Undefined

---------------------------------------------------------------------------
(* main, worker.js:193-224 *)

\* the switch of main compared without trimming or lower-casing
isWorkerRecipientExact(msg, e) == msg.to = e.WORKER_EMAIL

\* switch (recipientEmail.toLowerCase()) { case workerEmail.toLowerCase(): ...
isWorkerRecipient(msg, e) ==
    toLowerCase(trim(msg.to)) = toLowerCase(trim(e.WORKER_EMAIL))

\* the default branch falling through into the pipeline
mainRejectFallThrough ==
    /\ calls' = Append(calls, setReject("Unknown address"))
    /\ reject' = "Unknown address"
    /\ forwardEmails' = filterEmails(message, env, trim(env.WORKER_EMAIL))
    /\ pc' = "parse"
    /\ UNCHANGED <<idx, result, error>>

\* the default branch: setReject('Unknown address'); main and email return
mainReject ==
    /\ calls' = Append(calls, setReject("Unknown address"))
    /\ reject' = "Unknown address"
    /\ pc' = "done"
    /\ result' = "undefined"
    /\ UNCHANGED <<forwardEmails, idx, error>>

\* the worker's own case up to `await PostalMime.parse(...)`
mainAccept ==
    /\ forwardEmails' = filterEmails(message, env, trim(env.WORKER_EMAIL))
    /\ pc' = "parse"
    /\ UNCHANGED <<idx, calls, reject, result, error>>

main ==
    /\ pc = "main"
    /\ IF isWorkerRecipient(message, env) THEN mainAccept ELSE mainReject
    /\ UNCHANGED <<env, message, parsed, normalized, payload,
                   replyMessage>>

\* PostalMime.parse resolved; forward(message, env, forwardEmails) is entered
parseResolved ==
    /\ pc = "parse"
    /\ \E p \in ParsedEmails :
           parsed' = [text |-> p.text, html |-> p.html,
                      attachments |-> p.attachments,
                      subject |-> parsedSubject(message)]
    /\ pc' = "forward"
    /\ idx' = 1
    /\ UNCHANGED <<env, message, forwardEmails, calls, reject, result, error,
                   normalized, payload,
                   replyMessage>>

\* a parse error swallowed: the pipeline goes on
parseRejectedSwallowed ==
    /\ pc = "parse"
    /\ pc' = "forward"
    /\ idx' = 1
    /\ error' = "parse"
    /\ parsed' = EmptyParsed
    /\ UNCHANGED <<env, message, forwardEmails, calls, reject, result,
                   normalized, payload,
                   replyMessage>>

\* PostalMime.parse rejected: nothing catches it, main and email reject
parseRejected ==
    /\ pc = "parse"
    /\ pc' = "threw"
    /\ result' = "throws"
    /\ error' = "parse"
    /\ UNCHANGED <<env, message, forwardEmails, idx, calls, reject,
                   parsed, normalized, payload,
                   replyMessage>>

---------------------------------------------------------------------------
(* forward and forwardMessage, worker.js:270-304 *)

\* the whole list handed to the host as one comma-joined address
forwardCallJoined ==
    /\ pc = "forward"
    /\ idx <= Len(forwardEmails)
    /\ calls' = Append(calls, Call("forward", join(forwardEmails)))
    /\ idx' = Len(forwardEmails)
    /\ pc' = "forwarding"
    /\ UNCHANGED <<env, message, forwardEmails, reject, result, error,
                   parsed, normalized, payload,
                   replyMessage>>

\* the next address of the loop started without awaiting the forward
forwardCallUnawaited ==
    /\ pc = "forward"
    /\ idx <= Len(forwardEmails)
    /\ calls' = Append(calls, Call("forward", forwardEmails[idx]))
    /\ idx' = idx + 1
    /\ UNCHANGED <<env, message, pc, forwardEmails, reject, result, error,
                   parsed, normalized, payload, replyMessage>>

\* the next address of the loop, up to `await message.forward(address)`
forwardCall ==
    /\ pc = "forward"
    /\ idx <= Len(forwardEmails)
    /\ calls' = Append(calls, Call("forward", forwardEmails[idx]))
    /\ pc' = "forwarding"
    /\ UNCHANGED <<env, message, forwardEmails, idx, reject, result, error,
                   parsed, normalized, payload,
                   replyMessage>>

\* message.forward resolved: forwardMessage returns, the loop goes on
forwardResolved ==
    /\ pc = "forwarding"
    /\ calls' = Append(calls, Settle("forward.resolved", forwardEmails[idx], ""))
    /\ idx' = idx + 1
    /\ pc' = "forward"
    /\ UNCHANGED <<env, message, forwardEmails, reject, result, error,
                   parsed, normalized, payload,
                   replyMessage>>

\* a forward failure that is not caught: it ends forward, main and email
forwardRejectedAborts ==
    /\ pc = "forwarding"
    /\ calls' = Append(calls, Settle("forward.rejected", forwardEmails[idx], ""))
    /\ pc' = "threw"
    /\ result' = "throws"
    /\ error' = "forward"
    /\ UNCHANGED <<env, message, forwardEmails, idx, reject,
                   parsed, normalized, payload,
                   replyMessage>>

\* message.forward rejected: the catch of forwardMessage sets the reject
\* reason, forwardMessage returns, the loop goes on
forwardRejected ==
    /\ pc = "forwarding"
    /\ calls' = calls \o
           << Settle("forward.rejected", forwardEmails[idx], ""),
              setReject("Problem forwarding email") >>
    /\ reject' = "Problem forwarding email"
    /\ idx' = idx + 1
    /\ pc' = "forward"
    /\ UNCHANGED <<env, message, forwardEmails, result, error,
                   parsed, normalized, payload,
                   replyMessage>>

---------------------------------------------------------------------------
(* process and sendToSlack, worker.js:306-322 and 441-446 *)

\* the loop of forward is over (or the list was empty): process builds the
\* payload and sendToSlack starts the POST, up to `await fetch(...)`
process ==
    /\ pc = "forward"
    /\ idx > Len(forwardEmails)
    /\ normalized' = convertContent(parsed.text, parsed.html)
    /\ payload' = slackPayload(env, message.from, message.subject,
                               normalized',
                               filterAttachments(parsed.attachments))
    /\ calls' = Append(calls, Call("fetch", <<>>))
    /\ pc' = "fetching"
    /\ UNCHANGED <<env, message, forwardEmails, idx, reject, result, error,
                   parsed, replyMessage>>

\* the statuses a webhook may answer with
HttpStatuses == {"200", "404", "500"}

\* fetch resolved with a response of any status: sendToSlack never looks at
\* it, process returns
fetchResolved(status) ==
    /\ pc = "fetching"
    /\ calls' = Append(calls, Settle("fetch.resolved", <<>>, status))
    /\ pc' = "reply"
    /\ UNCHANGED <<env, message, forwardEmails, idx, reject, result, error,
                   parsed, normalized, payload,
                   replyMessage>>

\* a POST failure that is not caught
fetchRejectedPropagates ==
    /\ pc = "fetching"
    /\ calls' = Append(calls, Settle("fetch.rejected", <<>>, ""))
    /\ pc' = "threw"
    /\ result' = "throws"
    /\ error' = "fetch"
    /\ UNCHANGED <<env, message, forwardEmails, idx, reject,
                   parsed, normalized, payload,
                   replyMessage>>

\* a POST failure caught and logged without a reject reason
fetchRejectedUnflagged ==
    /\ pc = "fetching"
    /\ calls' = Append(calls, Settle("fetch.rejected", <<>>, ""))
    /\ pc' = "reply"
    /\ UNCHANGED <<env, message, forwardEmails, idx, reject, result, error,
                   parsed, normalized, payload, replyMessage>>

\* fetch rejected (the webhook was not reached): the catch of process sets
\* the reject reason, process returns
fetchRejected ==
    /\ pc = "fetching"
    /\ calls' = calls \o
           << Settle("fetch.rejected", <<>>, ""),
              setReject("Problem sending to Slack") >>
    /\ reject' = "Problem sending to Slack"
    /\ pc' = "reply"
    /\ UNCHANGED <<env, message, forwardEmails, idx, result, error,
                   parsed, normalized, payload,
                   replyMessage>>

---------------------------------------------------------------------------
(* reply, worker.js:243-268 *)

\* no reply either when the message already carries a reject reason
replySkippedOrRejected ==
    /\ pc = "reply"
    /\ ~isTrue(env.REPLY_TO_SENDER) \/ reject # ""
    /\ pc' = "done"
    /\ result' = "undefined"
    /\ UNCHANGED <<env, message, forwardEmails, idx, calls, reject, error,
                   parsed, normalized, payload, replyMessage>>

\* REPLY_TO_SENDER is not boolean true: reply, main and email return
replySkipped ==
    /\ pc = "reply"
    /\ ~isTrue(env.REPLY_TO_SENDER)
    /\ pc' = "done"
    /\ result' = "undefined"
    /\ UNCHANGED <<env, message, forwardEmails, idx, calls, reject, error,
                   parsed, normalized, payload,
                   replyMessage>>

\* composing the reply (mimetext, EmailMessage) throws: nothing catches it
replyComposeThrows ==
    /\ pc = "reply"
    /\ isTrue(env.REPLY_TO_SENDER)
    /\ pc' = "threw"
    /\ result' = "throws"
    /\ error' = "compose"
    /\ UNCHANGED <<env, message, forwardEmails, idx, calls, reject,
                   parsed, normalized, payload,
                   replyMessage>>

\* the reply is composed, up to `await message.reply(replyMessage)`
replyCall ==
    /\ pc = "reply"
    /\ isTrue(env.REPLY_TO_SENDER)
    /\ replyMessage' = composeReply(message, parsed)
    /\ calls' = Append(calls, Call("reply", message.from))
    /\ pc' = "replying"
    /\ UNCHANGED <<env, message, forwardEmails, idx, reject, result, error,
                   parsed, normalized, payload>>

\* message.reply resolved: reply, main and email return
replyResolved ==
    /\ pc = "replying"
    /\ calls' = Append(calls, Settle("reply.resolved", message.from, ""))
    /\ pc' = "done"
    /\ result' = "undefined"
    /\ UNCHANGED <<env, message, forwardEmails, idx, reject, error,
                   parsed, normalized, payload,
                   replyMessage>>

\* message.reply rejected: nothing catches it, main and email reject
replyRejected ==
    /\ pc = "replying"
    /\ calls' = Append(calls, Settle("reply.rejected", message.from, ""))
    /\ pc' = "threw"
    /\ result' = "throws"
    /\ error' = "reply"
    /\ UNCHANGED <<env, message, forwardEmails, idx, reject,
                   parsed, normalized, payload,
                   replyMessage>>

---------------------------------------------------------------------------
(* One invocation of the email handler, worker.js:138-140 *)

Next ==
    \/ main
    \/ parseResolved
    \/ parseRejected
    \/ forwardCall
    \/ forwardResolved
    \/ forwardRejected
    \/ process
    \/ \E status \in HttpStatuses : fetchResolved(status)
    \/ fetchRejected
    \/ replySkipped
    \/ replyComposeThrows
    \/ replyCall
    \/ replyResolved
    \/ replyRejected

Spec == Init /\ [][Next]_vars

---------------------------------------------------------------------------
(* filterEmails on its own, over every short configured list *)

InitFilter ==
    /\ env \in [WORKER_EMAIL : {<<"w">>, <<"W", " ">>},
                FORWARD_EMAIL : {Undefined, Str(DuplicateList)}
                                \cup {Str(s) : s \in CharLists},
                FORWARD_EXCLUDE_SENDER : Toggles,
                REPLY_TO_SENDER : {Bool(FALSE)},
                SHOW_ATTACHMENTS : {Undefined},
                SHOW_RAW_BODY : {Undefined},
                ATTACHMENT_BLOCK_COLOR_HEX : {Undefined}]
    /\ message \in [to : {<<"w">>}, from : {<<"A">>}, subject : {Null},
                    messageId : {Str(ExampleId)}]
    /\ pc = "filter"
    /\ forwardEmails = <<>>
    /\ idx = 1
    /\ calls = <<>>
    /\ reject = ""
    /\ result = "pending"
    /\ error = "none"
    /\ parsed = Undefined
    /\ normalized = Undefined
    /\ payload = Undefined
    /\ replyMessage = Undefined

\* const forwardEmails = filterEmails(message, env, workerEmail)
applyFilter ==
    /\ pc = "filter"
    /\ forwardEmails' = filterEmails(message, env, trim(env.WORKER_EMAIL))
    /\ pc' = "filtered"
    /\ UNCHANGED <<env, message, idx, calls, reject, result, error,
                   parsed, normalized, payload,
                   replyMessage>>

NextFilter == applyFilter

SpecFilter == InitFilter /\ [][NextFilter]_vars

---------------------------------------------------------------------------
(* process on its own: a message accepted and parsed, nothing to forward *)

atProcess ==
    /\ pc = "forward"
    /\ forwardEmails = <<>>
    /\ idx = 1
    /\ calls = <<>>
    /\ reject = ""
    /\ result = "pending"
    /\ error = "none"
    /\ normalized = Undefined
    /\ payload = Undefined
    /\ replyMessage = Undefined

\* the plain-text bodies: absent, or up to MaxTextLen letters and blanks
Texts ==
    {Undefined} \cup
    {Str(t) : t \in UNION {[1..n -> {"t", " "}] : n \in 0..MaxTextLen}}

\* the pieces of a generated HTML body
HtmlParts == {<<"<", "p", ">">>, <<"h">>, <<" ">>}

RECURSIVE concat(_)
concat(parts) ==
    IF parts = <<>> THEN <<>> ELSE Head(parts) \o concat(Tail(parts))

\* the HTML bodies: absent, or up to MaxHtmlParts pieces
Htmls ==
    {Undefined} \cup
    {Str(concat(l)) : l \in UNION {[1..n -> HtmlParts] : n \in 0..MaxHtmlParts}}

\* a toggle left unset or set as in Toggles
OptionalToggles == Toggles \cup {Undefined}

InitBody ==
    /\ env \in [WORKER_EMAIL : {<<"w">>},
                FORWARD_EMAIL : {Undefined},
                FORWARD_EXCLUDE_SENDER : {Undefined},
                REPLY_TO_SENDER : {Undefined},
                SHOW_ATTACHMENTS : {Undefined},
                SHOW_RAW_BODY : OptionalToggles,
                ATTACHMENT_BLOCK_COLOR_HEX : {Undefined}]
    /\ message \in [to : {<<"w">>}, from : {<<"A">>}, subject : {Str(HelloText)},
                    messageId : {Str(ExampleId)}]
    /\ parsed \in [text : Texts, html : Htmls, attachments : {<<>>},
                   subject : {Str(HelloText)}]
    /\ atProcess

NextProcess == process

SpecBody == InitBody /\ [][NextProcess]_vars

\* "#ff0000"
RedText == <<"#", "f", "f", "0", "0", "0", "0">>

\* ATTACHMENT_BLOCK_COLOR_HEX unset, set, and set to the empty string
Colors == {Undefined, Str(RedText), Str(<<>>)}

\* the text and html of the generated messages of the payload specification
Contents ==
    { [text |-> Str(HiThereText), html |-> Undefined],
      [text |-> Undefined, html |-> Str(HiHtml)],
      [text |-> Undefined, html |-> Undefined] }

AttachmentLists ==
    UNION {[1..n -> {NamedAttachment, BareAttachment}] : n \in 0..MaxAttachments}

InitPayload ==
    /\ env \in [WORKER_EMAIL : {<<"w">>},
                FORWARD_EMAIL : {Undefined},
                FORWARD_EXCLUDE_SENDER : {Undefined},
                REPLY_TO_SENDER : {Undefined},
                SHOW_ATTACHMENTS : OptionalToggles,
                SHOW_RAW_BODY : {Undefined, Bool(TRUE)},
                ATTACHMENT_BLOCK_COLOR_HEX : Colors]
    /\ message \in [to : {<<"w">>}, from : {<<"A">>}, subject : Subjects,
                    messageId : {Str(ExampleId)}]
    /\ \E c \in Contents, a \in AttachmentLists :
           parsed = [text |-> c.text, html |-> c.html, attachments |-> a,
                     subject |-> parsedSubject(message)]
    /\ atProcess

SpecPayload == InitPayload /\ [][NextProcess]_vars

\* one attachment of every content length up to MaxContentLen
SizedAttachments ==
    { [filename |-> Str(<<"a">>), mimeType |-> m,
       content |-> [k \in 1..n |-> "A"]] :
          n \in 0..MaxContentLen, m \in {Str(<<"x", "/", "y">>), Undefined} }

InitSize ==
    /\ env \in [WORKER_EMAIL : {<<"w">>},
                FORWARD_EMAIL : {Undefined},
                FORWARD_EXCLUDE_SENDER : {Undefined},
                REPLY_TO_SENDER : {Undefined},
                SHOW_ATTACHMENTS : {Bool(TRUE)},
                SHOW_RAW_BODY : {Undefined},
                ATTACHMENT_BLOCK_COLOR_HEX : {Undefined}]
    /\ message \in [to : {<<"w">>}, from : {<<"A">>}, subject : {Str(HelloText)},
                    messageId : {Str(ExampleId)}]
    /\ \E a \in SizedAttachments :
           parsed = [text |-> Str(HiThereText), html |-> Undefined,
                     attachments |-> <<a>>, subject |-> Str(HelloText)]
    /\ atProcess

SpecSize == InitSize /\ [][NextProcess]_vars

---------------------------------------------------------------------------
(* reply on its own: a message accepted, parsed and notified, nothing to
   forward *)

\* the Subject headers: absent, empty, "Hello"
ReplySubjects == {Null, Str(<<>>), Str(HelloText)}

\* the Message-ID headers: absent, "<m1@z>"
MessageIds == {Null, Str(ExampleId)}

\* the log of a POST that was answered, and of one that failed
PostAnswered == << Call("fetch", <<>>), Settle("fetch.resolved", <<>>, "200") >>

PostFailed ==
    << Call("fetch", <<>>), Settle("fetch.rejected", <<>>, ""),
       setReject("Problem sending to Slack") >>

InitReply ==
    /\ env \in [WORKER_EMAIL : {<<"w", "@", "y">>, <<"W", "@", "y", " ">>},
                FORWARD_EMAIL : {Undefined},
                FORWARD_EXCLUDE_SENDER : {Undefined},
                REPLY_TO_SENDER : Toggles,
                SHOW_ATTACHMENTS : {Undefined},
                SHOW_RAW_BODY : {Undefined},
                ATTACHMENT_BLOCK_COLOR_HEX : {Undefined}]
    /\ message \in [to : {<<"w", "@", "y">>, <<" ", "W", "@", "Y", "\t">>},
                    from : Senders, subject : ReplySubjects,
                    messageId : MessageIds]
    /\ isWorkerRecipient(message, env)
    /\ parsed = [text |-> Str(HiThereText), html |-> Undefined,
                 attachments |-> <<>>, subject |-> parsedSubject(message)]
    /\ normalized = convertContent(parsed.text, parsed.html)
    /\ payload = slackPayload(env, message.from, message.subject, normalized,
                              filterAttachments(parsed.attachments))
    /\ forwardEmails = <<>>
    /\ idx = 1
    /\ \/ calls = PostAnswered /\ reject = ""
       \/ calls = PostFailed /\ reject = "Problem sending to Slack"
    /\ pc = "reply"
    /\ result = "pending"
    /\ error = "none"
    /\ replyMessage = Undefined

NextReply ==
    \/ replySkipped
    \/ replyComposeThrows
    \/ replyCall
    \/ replyResolved
    \/ replyRejected

SpecReply == InitReply /\ [][NextReply]_vars

---------------------------------------------------------------------------
(* Reading the log of calls *)

\* the positions of the calls with this op, and whether there is one
at(op) == {k \in 1..Len(calls) : calls[k].op = op}
called(op) == at(op) # {}

\* the addresses handed to message.forward, in call order
forwardTargets ==
    LET fs == SelectSeq(calls, LAMBDA c : c.op = "forward")
    IN  [k \in 1..Len(fs) |-> fs[k].addr]

\* the handler is past the forward loop of an accepted message
pastForwarding ==
    \/ pc \in {"fetching", "reply", "replying", "done"} /\ called("fetch")
    \/ pc = "threw" /\ error \in {"fetch", "compose", "reply"}

\* two characters equal up to letter case
sameLetter(c, d) ==
    \/ c = d
    \/ \E k \in 1..Len(Upper) : {c, d} = {Upper[k], Lower[k]}

\* two strings equal up to letter case
sameIgnoringCase(s, t) ==
    /\ Len(s) = Len(t)
    /\ \A k \in 1..Len(s) : sameLetter(s[k], t[k])

\* s without its surrounding whitespace: from its first to its last
\* character that is not whitespace
core(s) ==
    LET inner == {k \in 1..Len(s) : s[k] \notin WhiteSpace}
    IN  IF inner = {} THEN <<>>
        ELSE SubSeq(s, CHOOSE k \in inner : \A m \in inner : k <= m,
                       CHOOSE k \in inner : \A m \in inner : k >= m)

\* two strings equal up to surrounding whitespace and letter case
sameAddress(s, t) == sameIgnoringCase(core(s), core(t))

---------------------------------------------------------------------------
(* The claims *)

\* C1: a message whose recipient (trimmed, lower-cased) differs from the
\* worker address (trimmed, lower-cased) gets setReject("Unknown address")
\* and nothing else: no forward, no webhook POST, no reply, whatever the
\* forward list and the toggles are.
C1_UnknownRecipientOnlyRejected ==
    (pc # "main" /\ ~sameAddress(message.to, env.WORKER_EMAIL)) =>
        /\ calls = <<setReject("Unknown address")>>
        /\ reject = "Unknown address"
        /\ pc = "done"

C1_Witness ==
    /\ pc = "done"
    /\ ~sameAddress(message.to, env.WORKER_EMAIL)
    /\ calls = <<setReject("Unknown address")>>
    /\ filterEmails(message, env, trim(env.WORKER_EMAIL)) # <<>>
    /\ isTrue(env.REPLY_TO_SENDER)

\* C2: a recipient equal to the worker address up to surrounding whitespace
\* and letter case takes the accepted path (parse, forward, POST, reply) and
\* is never rejected as "Unknown address".
C2_RecipientComparedTrimmedIgnoringCase ==
    (pc # "main" /\ sameAddress(message.to, env.WORKER_EMAIL)) =>
        /\ ~\E k \in 1..Len(calls) : calls[k] = setReject("Unknown address")
        /\ reject # "Unknown address"
        /\ pc = "done" => called("fetch")

C2_Witness ==
    /\ pc = "done"
    /\ message.to # env.WORKER_EMAIL
    /\ trim(message.to) # trim(env.WORKER_EMAIL)
    /\ Len(message.to) # Len(env.WORKER_EMAIL)
    /\ sameAddress(message.to, env.WORKER_EMAIL)
    /\ called("fetch")

\* C3: the handler gives the host a status-200 result when the message was
\* addressed to the worker and processed, and a status-400 result when the
\* recipient is unknown.
C3_HandlerReturnsStatus ==
    pc = "done" =>
        result = IF sameAddress(message.to, env.WORKER_EMAIL)
                 THEN "Response 200"
                 ELSE "Response 400"

\* C4: a failing forward is caught and flagged with
\* setReject("Problem forwarding email"); it never ends the invocation, every
\* target of the forward list is still attempted, and the webhook POST is
\* made after the last of them.
C4_ForwardFailuresIsolated ==
    /\ \A k \in at("forward.rejected") :
           /\ k < Len(calls)
           /\ calls[k + 1] = setReject("Problem forwarding email")
    /\ error # "forward"
    /\ (called("forward.rejected") /\ pc \notin {"forward", "forwarding"}) =>
           /\ forwardTargets = forwardEmails
           /\ \E f \in at("fetch") : \A k \in at("forward") : k < f

C4_Witness ==
    /\ pc = "done"
    /\ \E k \in at("forward.rejected") : \E m \in at("forward") : k < m
    /\ \E k \in at("forward.rejected") : \E f \in at("fetch") : k < f

\* C5: a webhook POST that throws is caught and flagged with
\* setReject("Problem sending to Slack"); the failure does not leave the
\* handler, and by then every forward of the invocation was made and has
\* completed.
C5_NotifyFailureIsolated ==
    /\ \A k \in at("fetch.rejected") :
           /\ k < Len(calls)
           /\ calls[k + 1] = setReject("Problem sending to Slack")
           /\ forwardTargets = forwardEmails
           /\ \A m \in at("forward") :
                  /\ m + 1 < k
                  /\ calls[m + 1].op \in {"forward.resolved", "forward.rejected"}
    /\ error # "fetch"
    /\ called("fetch.rejected") => pc \in {"reply", "replying", "done", "threw"}

C5_Witness ==
    /\ pc = "done"
    /\ called("fetch.rejected")
    /\ Len(forwardTargets) = 2
    /\ reject = "Problem sending to Slack"

\* C6: a notification failure is flagged with
\* setReject("Problem sending to Slack") both when the webhook is unreachable
\* and when it answers with a non-success HTTP status.
C6_NonSuccessStatusFlagged ==
    \A k \in 1..Len(calls) :
        ( \/ calls[k].op = "fetch.rejected"
          \/ calls[k].op = "fetch.resolved" /\ calls[k].info # "200" ) =>
            /\ k < Len(calls)
            /\ calls[k + 1] = setReject("Problem sending to Slack")

\* C7: with REPLY_TO_SENDER enabled, a failure of the reply primitive or of
\* composing the reply is contained: the handler still completes and no
\* unhandled fault escapes the invocation.
C7_ReplyFailureContained ==
    isTrue(env.REPLY_TO_SENDER) =>
        ~(result = "throws" /\ error \in {"compose", "reply"})

\* C8: a MIME parse failure is fatal: the error leaves the handler, and the
\* invocation makes no webhook POST, no forward call and no reply call.
C8_ParseFailureFatal ==
    error = "parse" =>
        /\ pc = "threw"
        /\ result = "throws"
        /\ calls = <<>>

C8_Witness ==
    /\ error = "parse"
    /\ result = "throws"
    /\ forwardEmails # <<>>
    /\ isTrue(env.REPLY_TO_SENDER)

\* C9: on the accepted path with a successful parse the forward calls are
\* exactly the filtered forward list, in list order, each target once; an
\* unset or empty FORWARD_EMAIL gives no forward call, and the list
\* "a@x.com, A@x.com ,inbox@worker.example" with the worker address
\* inbox@worker.example gives the single call forward("a@x.com").
C9_ForwardCallsAreTheList ==
    /\ Len(forwardTargets) <= Len(forwardEmails)
    /\ forwardTargets = SubSeq(forwardEmails, 1, Len(forwardTargets))
    /\ pastForwarding =>
           /\ forwardTargets = forwardEmails
           /\ \A j, k \in 1..Len(forwardTargets) :
                  forwardTargets[j] = forwardTargets[k] => j = k
           /\ orEmpty(env.FORWARD_EMAIL) = <<>> => forwardTargets = <<>>
           /\ ( /\ env.FORWARD_EMAIL = Str(ExampleList)
                /\ env.WORKER_EMAIL = ExampleWorker ) =>
                  forwardTargets = <<ExampleTarget>>

C9_Witness ==
    /\ pc = "done"
    /\ env.FORWARD_EMAIL = Str(ExampleList)
    /\ env.WORKER_EMAIL = ExampleWorker
    /\ forwardTargets = <<ExampleTarget>>

\* C10: the list filterEmails computes has no entry equal ignoring case to
\* the worker address and, when FORWARD_EXCLUDE_SENDER is true, none equal
\* ignoring case to the sender address.
C10_NoWorkerNoSender ==
    pc = "filtered" =>
        \A k \in 1..Len(forwardEmails) :
            /\ ~sameIgnoringCase(forwardEmails[k], env.WORKER_EMAIL)
            /\ ~sameIgnoringCase(forwardEmails[k], trim(env.WORKER_EMAIL))
            /\ isTrue(env.FORWARD_EXCLUDE_SENDER) =>
                   ~sameIgnoringCase(forwardEmails[k], message.from)

C10_Witness ==
    /\ pc = "filtered"
    /\ isTrue(env.FORWARD_EXCLUDE_SENDER)
    /\ forwardEmails # <<>>
    /\ LET raw == split(orEmpty(env.FORWARD_EMAIL))
       IN  /\ \E k \in 1..Len(raw) : sameAddress(raw[k], env.WORKER_EMAIL)
           /\ \E k \in 1..Len(raw) : sameAddress(raw[k], message.from)

---------------------------------------------------------------------------
(* The configured list read piece by piece *)

\* the pieces of s between commas, each as <<first, last>> positions (an
\* empty piece has last = first - 1)
pieces(s) ==
    {p \in (1..(Len(s) + 1)) \X (0..Len(s)) :
        /\ p[2] >= p[1] - 1
        /\ p[1] = 1 \/ s[p[1] - 1] = ","
        /\ p[2] = Len(s) \/ s[p[2] + 1] = ","
        /\ \A k \in p[1]..p[2] : s[k] # ","}

\* the entry a piece stands for: the piece without surrounding whitespace
entry(s, p) == core(SubSeq(s, p[1], p[2]))

\* the pieces of the configured list that must survive: not empty, not a
\* repetition (ignoring case) of an earlier piece, not the worker address
\* and, with FORWARD_EXCLUDE_SENDER, not the sender
keptPieces ==
    LET s == orEmpty(env.FORWARD_EMAIL)
    IN  {p \in pieces(s) :
            /\ entry(s, p) # <<>>
            /\ ~\E q \in pieces(s) :
                   q[1] < p[1] /\ sameIgnoringCase(entry(s, q), entry(s, p))
            /\ ~sameAddress(entry(s, p), env.WORKER_EMAIL)
            /\ isTrue(env.FORWARD_EXCLUDE_SENDER) =>
                   ~sameIgnoringCase(entry(s, p), message.from)}

\* C11: filterEmails splits the list on commas, trims each entry, drops the
\* empty ones and keeps, in input order, the first occurrence (with its own
\* spelling) of every entry ignoring case; no two result entries are equal
\* ignoring case, and "A@x.com,a@x.com" yields ["A@x.com"].
C11_FirstOccurrencesInOrder ==
    pc = "filtered" =>
        LET s == orEmpty(env.FORWARD_EMAIL)
            kept == keptPieces
        IN  /\ Len(forwardEmails) = Cardinality(kept)
            /\ \A p \in kept :
                   forwardEmails[1 + Cardinality({q \in kept : q[1] < p[1]})]
                       = entry(s, p)
            /\ \A j, k \in 1..Len(forwardEmails) :
                   sameIgnoringCase(forwardEmails[j], forwardEmails[k]) => j = k
            /\ env.FORWARD_EMAIL = Str(DuplicateList) =>
                   forwardEmails = <<DuplicateKept>>

C11_Witness ==
    /\ pc = "filtered"
    /\ env.FORWARD_EMAIL = Str(<<"A", ",", "a", ",", "b">>)
    /\ ~isTrue(env.FORWARD_EXCLUDE_SENDER)
    /\ forwardEmails = << <<"A">>, <<"b">> >>

\* C12: filterEmails is idempotent: its output joined with commas and
\* filtered again, with the same worker address, sender and toggle, is the
\* same list.
C12_FilterIdempotent ==
    pc = "filtered" =>
        filterEmails(message,
                     [env EXCEPT !.FORWARD_EMAIL = Str(join(forwardEmails))],
                     trim(env.WORKER_EMAIL)) = forwardEmails

C12_Witness ==
    /\ pc = "filtered"
    /\ Len(forwardEmails) = 2
    /\ \E k \in 1..Len(orEmpty(env.FORWARD_EMAIL)) :
           orEmpty(env.FORWARD_EMAIL)[k] = " "
    /\ join(forwardEmails) # orEmpty(env.FORWARD_EMAIL)


---------------------------------------------------------------------------
(* Reading the payload of the POST *)

\* the text of the body section
bodySectionText ==
    LET k == CHOOSE k \in 1..Len(payload.blocks) :
                 payload.blocks[k].type = "section"
    IN  payload.blocks[k].text.text

\* the text after the "Subject:" label
subjectText == payload.blocks[2].elements[2].elements[3].text

\* the types of the blocks, in order
blockTypes == [k \in 1..Len(payload.blocks) |-> payload.blocks[k].type]

\* whether a body reached the handler as a non-empty string
nonEmpty(x) == x.t = "string" /\ x.v # <<>>

---------------------------------------------------------------------------
(* Body normalization *)

\* C13 as stated: a non-empty text gives text.trim() whatever html is; an
\* empty or absent text with an html body gives the trimmed conversion of
\* html.
C13_PlainBodyIsTextOrConversion ==
    pc = "fetching" =>
        /\ nonEmpty(parsed.text) =>
               normalized.text = Str(trim(parsed.text.v))
        /\ ~nonEmpty(parsed.text) /\ nonEmpty(parsed.html) =>
               normalized.text = Str(trim(convert(parsed.html.v)))

\* C13 amended: a non-empty text gives text.trim() whatever html is; an
\* empty or absent text with a non-empty html gives the trimmed conversion
\* of html when the conversion is not the empty string, and null when it is.
C13_PlainBodyIsTextOrNonEmptyConversion ==
    pc = "fetching" =>
        /\ nonEmpty(parsed.text) =>
               normalized.text = Str(trim(parsed.text.v))
        /\ ~nonEmpty(parsed.text) /\ nonEmpty(parsed.html) =>
               normalized.text =
                   IF convert(parsed.html.v) # <<>>
                   THEN Str(trim(convert(parsed.html.v)))
                   ELSE Null

\* an html body of tags only, without a plain text, was normalized to null
C13_Witness ==
    /\ pc = "fetching"
    /\ ~nonEmpty(parsed.text)
    /\ parsed.html = Str(<<"<", "p", ">", "<", "p", ">">>)
    /\ normalized.text = Null

\* C14 as stated: with neither a plain-text nor an HTML body, the text of
\* the body section of the payload is the empty string.
C14_EmptyBodyIsEmptyString ==
    pc = "fetching" /\ ~nonEmpty(parsed.text) /\ ~nonEmpty(parsed.html) =>
        bodySectionText = Str(<<>>)

\* C14 amended: with neither a plain-text nor an HTML body, the normalized
\* plain body is null; the text of the body section is null when
\* SHOW_RAW_BODY is not true, and the preformatted block around the word
\* "null" when it is.
C14_EmptyBodyIsNull ==
    pc = "fetching" /\ ~nonEmpty(parsed.text) /\ ~nonEmpty(parsed.html) =>
        /\ normalized.text = Null
        /\ bodySectionText = IF isTrue(env.SHOW_RAW_BODY)
                             THEN Str(BodyPrefix \o NullText \o BodySuffix)
                             ELSE Null

\* a message whose text is the empty string and whose html is absent was
\* posted with the default display
C14_Witness ==
    /\ pc = "fetching"
    /\ parsed.text = Str(<<>>)
    /\ parsed.html = Undefined
    /\ ~isTrue(env.SHOW_RAW_BODY)
    /\ bodySectionText = Null


---------------------------------------------------------------------------
(* The detailed attachment entries *)

\* whether the payload has the legacy attachments field
hasDetails == payload.attachments.t = "array"

\* the detailed entries, none when the field is absent
details == IF hasDetails THEN payload.attachments.v ELSE <<>>

\* the Mime Type / Size line of an entry reporting this many bytes
sizeLine(att, n) ==
    Str(MimePrefix \o att.mimeType.v \o SizePrefix \o decimal(n) \o SizeSuffix)

\* the Mime Type / Size line the k-th entry carries
sizeText(k) == details[k].blocks[2].elements[1].text

\* the attachments as process handed them to sendToSlack
sent == filterAttachments(parsed.attachments)

\* C15 as stated: the size reported for an attachment of base64 length L is
\* floor(L * 0.75) bytes, for every L.
C15_SizeIsFloor ==
    pc = "fetching" =>
        \A k \in 1..Len(details) :
            sizeText(k) = sizeLine(sent[k], (3 * Len(sent[k].content)) \div 4)

\* C15 amended: the size reported is L * 0.75 rounded to the nearest integer,
\* a half rounded up: the n with n - 1/2 <= 3L/4 < n + 1/2.  It is
\* floor(L * 0.75) when L mod 4 is 0 or 3 (so L = 100 reports 75) and one
\* more than that when L mod 4 is 1 or 2.
C15_SizeIsNearest ==
    pc = "fetching" =>
        \A k \in 1..Len(details) :
            LET L == Len(sent[k].content)
                n == CHOOSE n \in 0..L : 4 * n <= 3 * L + 2 /\ 3 * L < 4 * n + 2
            IN  /\ sizeText(k) = sizeLine(sent[k], n)
                /\ n = ((3 * L) \div 4) + (IF L % 4 \in {1, 2} THEN 1 ELSE 0)
                /\ L = 100 => n = 75

\* a content of two characters was reported as 2 bytes
C15_Witness ==
    /\ pc = "fetching"
    /\ Len(details) = 1
    /\ Len(sent[1].content) = 2
    /\ sizeText(1) = sizeLine(sent[1], 2)


\* the filename text the k-th entry carries
nameText(k) == details[k].blocks[1].text.text

\* the name and the type of the k-th attachment of the parsed message, with
\* the placeholders for those the parser did not find
nameOf(k) ==
    IF nonEmpty(parsed.attachments[k].filename)
    THEN parsed.attachments[k].filename.v
    ELSE UnnamedAttachment

typeOf(k) ==
    IF nonEmpty(parsed.attachments[k].mimeType)
    THEN parsed.attachments[k].mimeType.v
    ELSE OctetStream

\* the payload has detailed entries exactly when SHOW_ATTACHMENTS is true and
\* there is an attachment, and then one per attachment, in order, with its
\* filename, MIME type and size
detailsAsConfigured ==
    /\ hasDetails <=> (isTrue(env.SHOW_ATTACHMENTS) /\ Len(parsed.attachments) >= 1)
    /\ hasDetails =>
           /\ Len(details) = Len(parsed.attachments)
           /\ \A k \in 1..Len(details) :
                  /\ nameText(k) = Str(NameMark \o nameOf(k) \o NameMark)
                  /\ sizeText(k) =
                         Str(MimePrefix \o typeOf(k) \o SizePrefix
                             \o decimal(roundedSize(parsed.attachments[k].content))
                             \o SizeSuffix)

\* neither a summary block nor detailed entries
noAttachmentBlock ==
    /\ ~hasDetails
    /\ \A k \in 1..Len(blockTypes) : blockTypes[k] # "context"

\* C16 as stated: detailed entries iff SHOW_ATTACHMENTS is true and there is
\* at least one attachment, one per attachment in source order; with no
\* attachments and show-attachments off the payload has no attachment block
\* and its body section text is the normalized plain body.
C16_DetailsIffShownAndPlainBody ==
    pc = "fetching" =>
        /\ detailsAsConfigured
        /\ Len(parsed.attachments) = 0 /\ ~isTrue(env.SHOW_ATTACHMENTS) =>
               /\ noAttachmentBlock
               /\ bodySectionText = normalized.text

\* C16 amended: as stated, except that with no attachments and
\* show-attachments off the body section text is the normalized plain body
\* only when SHOW_RAW_BODY is not true.
C16_DetailsIffShown ==
    pc = "fetching" =>
        /\ detailsAsConfigured
        /\ Len(parsed.attachments) = 0 /\ ~isTrue(env.SHOW_ATTACHMENTS) =>
               /\ noAttachmentBlock
               /\ ~isTrue(env.SHOW_RAW_BODY) => bodySectionText = normalized.text

\* two attachments, the first without a name, were posted in detail
C16_Witness ==
    /\ pc = "fetching"
    /\ isTrue(env.SHOW_ATTACHMENTS)
    /\ parsed.attachments = <<BareAttachment, NamedAttachment>>
    /\ Len(details) = 2
    /\ nameText(1) = Str(NameMark \o UnnamedAttachment \o NameMark)

\* "Hi there" without attachments was posted with the default display
C16_WitnessPlain ==
    /\ pc = "fetching"
    /\ parsed.attachments = <<>>
    /\ env.SHOW_ATTACHMENTS = Undefined
    /\ env.SHOW_RAW_BODY = Undefined
    /\ noAttachmentBlock
    /\ bodySectionText = Str(HiThereText)

---------------------------------------------------------------------------
(* The order of the blocks *)

\* where the attachment-count summary is among the blocks
summaryAt == {k \in 1..Len(blockTypes) : blockTypes[k] = "context"}

\* C17: without the summary the blocks are header, From/Subject, divider,
\* body, divider in this order; the summary is there once when the message
\* has attachments and never when it has none, third (right after
\* From/Subject) when SHOW_ATTACHMENTS is not true and sixth (after the
\* closing divider) when it is.
C17_BlockOrder ==
    pc = "fetching" =>
        /\ SelectSeq(blockTypes, LAMBDA t : t # "context")
               = <<"header", "rich_text", "divider", "section", "divider">>
        /\ Cardinality(summaryAt) = IF Len(parsed.attachments) > 0 THEN 1 ELSE 0
        /\ \A k \in summaryAt :
               /\ k = IF isTrue(env.SHOW_ATTACHMENTS) THEN 6 ELSE 3
               /\ payload.blocks[k].elements[1].text
                      = Str(CountPrefix \o decimal(Len(parsed.attachments))
                            \o CountSuffix)

\* two attachments with SHOW_ATTACHMENTS true: the summary closes the blocks
C17_Witness ==
    /\ pc = "fetching"
    /\ isTrue(env.SHOW_ATTACHMENTS)
    /\ Len(parsed.attachments) = 2
    /\ blockTypes = <<"header", "rich_text", "divider", "section", "divider",
                      "context">>


---------------------------------------------------------------------------
(* The body section, the subject and the color *)

\* C18: the body section text is the normalized plain body when SHOW_RAW_BODY
\* is not true; when it is true it is the normalized HTML body between the
\* opening and the closing of a preformatted block, and the normalized HTML
\* body of an html that is there is html.trim() whether or not a plain text
\* was chosen.
C18_BodyAsConfigured ==
    pc = "fetching" =>
        /\ ~isTrue(env.SHOW_RAW_BODY) => bodySectionText = normalized.text
        /\ isTrue(env.SHOW_RAW_BODY) =>
               bodySectionText =
                   Str(BodyPrefix \o template(normalized.html) \o BodySuffix)
        /\ nonEmpty(parsed.html) => normalized.html = Str(trim(parsed.html.v))

\* a message with a plain text and the html " h" was posted raw
C18_Witness ==
    /\ pc = "fetching"
    /\ isTrue(env.SHOW_RAW_BODY)
    /\ nonEmpty(parsed.text)
    /\ parsed.html = Str(<<" ", "h">>)
    /\ bodySectionText = Str(BodyPrefix \o <<"h">> \o BodySuffix)

\* C19: the text after the "Subject:" label is the subject when the header
\* is present and a substitute string when it is absent; it is never null.
C19_SubjectNeverNull ==
    pc = "fetching" =>
        /\ subjectText.t = "string"
        /\ message.subject.t = "string" => subjectText = message.subject

\* "#36a64f", the default the documentation gives for
\* ATTACHMENT_BLOCK_COLOR_HEX
DefaultColor == <<"#", "3", "6", "a", "6", "4", "f">>

\* C20: every detailed entry carries the configured color, and the default
\* green #36a64f when ATTACHMENT_BLOCK_COLOR_HEX is not configured.
C20_ColorDefaultsToGreen ==
    pc = "fetching" =>
        \A k \in 1..Len(details) :
            details[k].color =
                IF env.ATTACHMENT_BLOCK_COLOR_HEX = Undefined
                THEN Str(DefaultColor)
                ELSE env.ATTACHMENT_BLOCK_COLOR_HEX


---------------------------------------------------------------------------
(* The automated reply *)

\* how often message.reply was called
replies == Cardinality(at("reply"))

C22_ReplyComposition ==
    called("reply") =>
        /\ replyMessage.sender.addr = message.to
        /\ sameAddress(replyMessage.sender.addr, env.WORKER_EMAIL)
        /\ replyMessage.sender.name = SenderName
        /\ replyMessage.recipient = message.from
        /\ replyMessage.to = message.from
        /\ replyMessage.inReplyTo = message.messageId
        /\ replyMessage.subject =
               ReplyPrefix \o (IF message.subject.t = "string"
                                  /\ message.subject.v # <<>>
                               THEN message.subject.v
                               ELSE NoSubject)

\* a message without a Subject header, sent to another spelling of the
\* worker address, was answered
C22_Witness ==
    /\ called("reply")
    /\ message.subject = Null
    /\ message.to # env.WORKER_EMAIL
    /\ replyMessage.subject = ReplyPrefix \o NoSubject
    /\ replyMessage.inReplyTo = Str(ExampleId)


---------------------------------------------------------------------------
(* The order of the side effects and the reject reasons *)

\* the calls that start a side effect, and what each is settled by
Starts == {"forward", "fetch", "reply"}

settles(op) ==
    IF op = "forward" THEN {"forward.resolved", "forward.rejected"}
    ELSE IF op = "fetch" THEN {"fetch.resolved", "fetch.rejected"}
    ELSE {"reply.resolved", "reply.rejected"}

\* the completions of the forward attempts
forwardSettled == at("forward.resolved") \cup at("forward.rejected")

\* C23: the side effects never overlap: what follows the start of a forward,
\* of the POST or of the reply in the log is its own completion; the POST is
\* started after every forward of the list has completed, and the reply
\* after the POST has completed.
C23_SideEffectsInSequence ==
    /\ \A k \in 1..Len(calls) :
           calls[k].op \in Starts /\ k < Len(calls) =>
               /\ calls[k + 1].op \in settles(calls[k].op)
               /\ calls[k + 1].addr = calls[k].addr
    /\ \A f \in at("fetch") :
           /\ Cardinality({k \in forwardSettled : k < f}) = Len(forwardEmails)
           /\ \A k \in at("forward") \cup forwardSettled : k < f
    /\ \A r \in at("reply") :
           /\ \E k \in at("fetch.resolved") \cup at("fetch.rejected") : k < r
           /\ \A k \in at("fetch") \cup at("forward") \cup forwardSettled : k < r

\* two forwards, the first of which failed, then the POST, then the reply
C23_Witness ==
    /\ pc = "done"
    /\ Cardinality(at("forward")) = 2
    /\ \E k \in at("forward.rejected") : \E m \in at("forward.resolved") : k < m
    /\ called("fetch.resolved")
    /\ called("reply.resolved")

\* the setReject calls with this reason
rejectedWith(reason) == {k \in at("setReject") : calls[k].info = reason}

\* C24: for an accepted message every setReject follows a forward or a POST
\* that threw, with "Problem forwarding email" once for each failed forward
\* and "Problem sending to Slack" once for a failed POST; the message carries
\* the last reason set, and none when neither a forward nor the POST failed.
C24_RejectIffFailure ==
    rejectedWith("Unknown address") = {} =>
        /\ \A k \in at("setReject") :
               /\ k > 1
               /\ \/ /\ calls[k - 1].op = "forward.rejected"
                     /\ calls[k].info = "Problem forwarding email"
                  \/ /\ calls[k - 1].op = "fetch.rejected"
                     /\ calls[k].info = "Problem sending to Slack"
        /\ Cardinality(rejectedWith("Problem forwarding email"))
               = Cardinality(at("forward.rejected"))
        /\ Cardinality(rejectedWith("Problem sending to Slack"))
               = Cardinality(at("fetch.rejected"))
        /\ reject = IF at("setReject") = {} THEN ""
                    ELSE calls[CHOOSE k \in at("setReject") :
                                   \A m \in at("setReject") : m <= k].info
        /\ called("fetch.rejected") => reject = "Problem sending to Slack"

\* a forward and the POST both failed: two reasons were set, the last one
\* for the POST
C24_Witness ==
    /\ pc = "done"
    /\ Cardinality(at("forward")) = 2
    /\ Cardinality(at("forward.rejected")) = 1
    /\ called("fetch.rejected")
    /\ Cardinality(at("setReject")) = 2
    /\ reject = "Problem sending to Slack"

\* both forwards and the POST went through: no reason was set
C24_WitnessClean ==
    /\ pc = "done"
    /\ Cardinality(at("forward.resolved")) = 2
    /\ called("fetch.resolved")
    /\ ~called("setReject")
    /\ reject = ""

===========================================================================
